---- MODULE Spec2Model ----
(***************************************************************************)
(* A model of the @elysiajs/jwt plugin: the facade built by jwt(options)   *)
(* and its sign and verify operations, together with the parts of the jose *)
(* provider (SignJWT, jwtVerify, decodeProtectedHeader, local JWK sets)    *)
(* that decide their results.                                              *)
(*                                                                         *)
(* Cryptography is symbolic: a signature segment is named by the key       *)
(* material that produced it over the token's own header and payload, or   *)
(* is "junk"; it verifies under a key exactly when it names that key's     *)
(* material.                                                               *)
(***************************************************************************)
EXTENDS Integers, Sequences, FiniteSets, TLC

VARIABLES
    cfg,    \* the options jwt() was called with (read-only after construction)
    now,    \* the clock, in epoch seconds
    call,   \* the call in progress or last completed, and what it returned
    loop,   \* the candidate-key iteration of the verify in progress, and the
            \* steps a verify taken step by step has run
    other   \* the call another handler makes on the same facade meanwhile

vars == <<cfg, now, call, loop, other>>

\* The clock stops here.
MaxTime == 2

----------------------------------------------------------------------------
(* JavaScript values.  A value is tagged with its type; "missing" is a key *)
(* that is not a property of the object at all, "undefined" a key that is  *)
(* present with the value undefined.                                       *)

V(t, v) == [t |-> t, v |-> v]
Missing == V("missing", 0)
Undef == V("undefined", 0)
Num(n) == V("number", n)
\* a time-span string such as '1s' or '1s ago', named by the seconds it spans
Span(d) == V("string", d)
\* a string that is no time span
BadStr == V("badstring", 0)
DateV(n) == V("date", n)
TrueV == V("boolean", 1)
FalseV == V("boolean", 0)
Text == V("text", 0)
OtherText == V("text", 3)
NullV == V("null", 0)

\* 'k' in obj
In(x) == x # Missing
\* a ?? b
Nullish(x) == x \in {Missing, Undef, NullV}
Coalesce(a, b) == IF Nullish(a) THEN b ELSE a
\* what JSON.stringify keeps of a property
Json(x) == IF x.t = "undefined" THEN Missing ELSE x

\* Algorithm names, split after their first two characters.
HS256 == <<"HS", 256>>
HS512 == <<"HS", 512>>
HSX == <<"HS", 1>>
RS256 == <<"RS", 256>>
NoAlg == <<"undefined", 0>>

\* typeof alg === 'string'
IsString(alg) == alg # NoAlg
\* alg.startsWith('HS')
StartsWithHS(alg) == alg[1] = "HS"

\* Key material: two octet secrets and two RSA key pairs.
OctMaterial == {"A", "B"}
RsaMaterial == {"p1", "p2"}
Materials == OctMaterial \cup RsaMaterial

\* A key argument: a concrete key of some form over some material, undefined,
\* or a key-set function (form "function") over the keys of its set, which
\* fails when its remote fetch fails.
K(form, mat) == [form |-> form, mat |-> mat, keys |-> <<>>, fails |-> FALSE]
UndefinedKey == K("undefined", "-")
KeySet(keys, fails) ==
    [form |-> "function", mat |-> "-", keys |-> keys, fails |-> fails]

----------------------------------------------------------------------------
(* Tokens.  The jwt argument of verify is undefined, the empty string, a   *)
(* string that is no compact JWS, or a compact JWS with a protected header *)
(* (alg), a payload and a signature segment.                               *)

Claims(name, iss, exp, nbf, iat) ==
    [name |-> name, iss |-> iss, exp |-> exp, nbf |-> nbf, iat |-> iat]
NoPayload == Claims(Missing, Missing, Missing, Missing, Missing)

\* The other members of a protected header: typ, kid, crit and b64, each
\* Missing when the header does not have it.  A typ is the string 'JWT' or
\* another string; a crit is ['b64'] or names a parameter the provider does
\* not recognize.
JWT == V("text", 1)
OtherTyp == V("text", 2)
CritB64 == V("array", 1)
CritOther == V("array", 2)
Header(typ, kid, crit, b64) ==
    [typ |-> typ, kid |-> kid, crit |-> crit, b64 |-> b64,
     cty |-> Missing, enc |-> NoAlg]
NoHeader == Header(Missing, Missing, Missing, Missing)

Tok(shape, alg, payload, sig) ==
    [shape |-> shape, alg |-> alg, payload |-> payload, sig |-> sig,
     hdr |-> NoHeader]
NoToken == Tok("undefined", NoAlg, NoPayload, "junk")
EmptyToken == Tok("empty", NoAlg, NoPayload, "junk")
MalformedToken == Tok("malformed", NoAlg, NoPayload, "junk")

\* verify's options argument (jose's JWTVerifyOptions): absent, or an object
\* with or without an algorithms list, and a clock tolerance in seconds.
Opts(given, hasAlgs, algs, tol) ==
    [given |-> given, hasAlgs |-> hasAlgs, algs |-> algs, tol |-> tol]
NoOptions == Opts(FALSE, FALSE, {}, 0)

----------------------------------------------------------------------------
(* Outcomes of a call: a returned value (val: "claims" with data, "token"  *)
(* with token, or "false") or a thrown error.  The other fields record how *)
(* the call went: "err" the error raised inside it (kept when the call     *)
(* went on to return false), "invoked" the calls made to a key-set         *)
(* function, "checked" the signature checks made against a concrete key,   *)
(* "path" the key source verify handed to the provider, and "handed" the   *)
(* options it handed over with it.                                         *)

Out(kind, val, err, data, token) ==
    [kind |-> kind, val |-> val, err |-> err, data |-> data, token |-> token,
     invoked |-> 0, checked |-> 0, path |-> "none", handed |-> NoOptions]
Ret(p) == Out("return", "claims", "", p, NoToken)
RetToken(tok) == Out("return", "token", "", NoPayload, tok)
RetFalse == Out("return", "false", "", NoPayload, NoToken)
Throw(e) == Out("throw", "", e, NoPayload, NoToken)
NoOutcome == Out("none", "", "", NoPayload, NoToken)

----------------------------------------------------------------------------
(* The jose provider.                                                      *)

\* Algorithms the provider implements (of those the model names).
Supported(alg) == alg \in {HS256, HS512, RS256}

\* A JWK set's key type for an algorithm: RSA for RS*, nothing for HS*.
FitsJwk(alg, mat) == alg[1] = "RS" /\ mat \in RsaMaterial

\* createLocalJWKSet / createRemoteJWKSet: the function handed to jwtVerify.
\* A failed fetch throws; no matching key and several matching keys throw.
getKey(fn, alg) ==
    LET cands == SelectSeq(fn.keys, LAMBDA m : FitsJwk(alg, m))
    IN  IF fn.fails THEN [kind |-> "throw", err |-> "ERR_JWKS_TIMEOUT", key |-> UndefinedKey]
        ELSE IF alg[1] # "RS"
            THEN [kind |-> "throw", err |-> "ERR_JOSE_NOT_SUPPORTED", key |-> UndefinedKey]
        ELSE IF Len(cands) = 0
            THEN [kind |-> "throw", err |-> "ERR_JWKS_NO_MATCHING_KEY", key |-> UndefinedKey]
        ELSE IF Len(cands) > 1
            THEN [kind |-> "throw", err |-> "ERR_JWKS_MULTIPLE_MATCHING_KEYS", key |-> UndefinedKey]
        ELSE [kind |-> "return", err |-> "", key |-> K("public", cands[1])]

\* checkKeyType: the key's type must suit the algorithm and the use.
checkKeyType(alg, key, usage) ==
    IF StartsWithHS(alg)
    THEN key.form = "bytes" /\ key.mat \in OctMaterial
    ELSE /\ key.mat \in RsaMaterial
         /\ key.form = (IF usage = "sign" THEN "private" ELSE "public")

validateClaimsSetNoExp(p, options, t) ==
    IF In(p.iat) /\ p.iat.t # "number" THEN Throw("ERR_JWT_CLAIM_VALIDATION_FAILED")
    ELSE IF In(p.nbf) /\ p.nbf.t # "number" THEN Throw("ERR_JWT_CLAIM_VALIDATION_FAILED")
    ELSE IF In(p.nbf) /\ p.nbf.v > t + options.tol THEN Throw("ERR_JWT_CLAIM_VALIDATION_FAILED")
    ELSE IF In(p.exp) /\ p.exp.t # "number" THEN Throw("ERR_JWT_CLAIM_VALIDATION_FAILED")
    ELSE Ret(p)

\* Validation of the JWT claims set after the signature check.
validateClaimsSet(p, options, t) ==
    IF In(p.iat) /\ p.iat.t # "number" THEN Throw("ERR_JWT_CLAIM_VALIDATION_FAILED")
    ELSE IF In(p.nbf) /\ p.nbf.t # "number" THEN Throw("ERR_JWT_CLAIM_VALIDATION_FAILED")
    ELSE IF In(p.nbf) /\ p.nbf.v > t + options.tol THEN Throw("ERR_JWT_CLAIM_VALIDATION_FAILED")
    ELSE IF In(p.exp) /\ p.exp.t # "number" THEN Throw("ERR_JWT_CLAIM_VALIDATION_FAILED")
    ELSE IF In(p.exp) /\ p.exp.v <= t - options.tol THEN Throw("ERR_JWT_EXPIRED")
    ELSE Ret(p)

verifySignatureSkipped(jwt, key) == TRUE

\* The signature check of one token against one concrete key.
verifySignature(jwt, key) == jwt.sig = key.mat

\* jwtVerify(jwt, key, options) at time t; key is a concrete key or a function.
jwtVerify(jwt, key, options, t) ==
    IF jwt.shape # "compact" THEN Throw("ERR_JWS_INVALID")
    ELSE IF ~IsString(jwt.alg) THEN Throw("ERR_JWS_INVALID")
    ELSE IF options.hasAlgs /\ jwt.alg \notin options.algs
        THEN Throw("ERR_JOSE_ALG_NOT_ALLOWED")
    ELSE
        LET fn == key.form = "function"
            got == IF fn THEN getKey(key, jwt.alg)
                   ELSE [kind |-> "return", err |-> "", key |-> key]
            n == IF fn THEN 1 ELSE 0
        IN  IF got.kind = "throw" THEN [Throw(got.err) EXCEPT !.invoked = n]
            ELSE IF got.key.form = "undefined" \/ ~checkKeyType(jwt.alg, got.key, "verify")
                THEN [Throw("TypeError") EXCEPT !.invoked = n]
            ELSE IF ~Supported(jwt.alg)
                THEN [Throw("ERR_JOSE_NOT_SUPPORTED") EXCEPT !.invoked = n]
            ELSE IF ~verifySignature(jwt, got.key)
                THEN [Throw("ERR_JWS_SIGNATURE_VERIFICATION_FAILED")
                        EXCEPT !.invoked = n, !.checked = 1]
            ELSE [validateClaimsSet(jwt.payload, options, t)
                    EXCEPT !.invoked = n, !.checked = 1]

\* decodeProtectedHeader(jwt): the header of a compact token, else a TypeError.
decodeProtectedHeader(jwt) ==
    IF jwt.shape = "compact"
    THEN [kind |-> "return", err |-> "", alg |-> jwt.alg]
    ELSE [kind |-> "throw", err |-> "TypeError", alg |-> NoAlg]

----------------------------------------------------------------------------
(* The facade of jwt({ secret, jwks, schema, ...defaultValues }).          *)
(* cfg.secret is a key value of form "undefined" (not given), "string",    *)
(* "bytes" (Uint8Array) or "jwk" (an object with 'kty'), over octet        *)
(* material; cfg.jwks is undefined or a key-set function; cfg.alg is       *)
(* NoAlg when no alg is configured; cfg.iss, cfg.exp, cfg.nbf and cfg.iat  *)
(* are the configured default claims, and cfg.typ, cfg.kid, cfg.crit and   *)
(* cfg.b64 the configured header members, Missing when not configured,     *)
(* like cfg.cty; cfg.enc is NoAlg when no enc is configured.               *)

Config(secret, jwks, schema, alg, iss, exp, nbf, iat) ==
    [secret |-> secret, jwks |-> jwks, schema |-> schema, alg |-> alg,
     iss |-> iss, exp |-> exp, nbf |-> nbf, iat |-> iat,
     typ |-> Missing, kid |-> Missing, crit |-> Missing, b64 |-> Missing,
     cty |-> Missing, enc |-> NoAlg,
     privateKey |-> UndefinedKey, publicKey |-> UndefinedKey]

\* JavaScript truthiness of the secret and jwks options.
Truthy(k) == k.form # "undefined" /\ ~(k.form = "string" /\ k.mat = "")

ConstructedBySecret(c) == Truthy(c.secret)

\* if (!secret && !jwks) throw new Error(...)
Constructed(c) == Truthy(c.secret) \/ Truthy(c.jwks)

\* const key = secret ? (JWK object ? undefined : string ? encode : secret) : undefined
key(c) ==
    IF Truthy(c.secret)
    THEN IF c.secret.form = "jwk" THEN UndefinedKey
         ELSE IF c.secret.form = "string" THEN K("bytes", c.secret.mat)
         ELSE c.secret
    ELSE UndefinedKey

\* importJWK(secret as JWK, alg): an octet JWK imports as its octets.
getKeyForAlg(c, alg) ==
    IF c.secret.form = "jwk" THEN K("bytes", c.secret.mat) ELSE UndefinedKey

\* validator.Check(data) for a schema that asks for a string 'name',
\* intersected with the plugin's types for the standard claims.
Check(p) ==
    /\ p.name.t = "text"
    /\ p.iss.t \in {"missing", "text"}
    /\ p.nbf.t \in {"missing", "number"}
    /\ p.exp.t \in {"missing", "number"}
    /\ p.iat.t \in {"missing", "number"}

ASYMMETRIC_VERIFICATION_ALGS ==
    {<<"RS", 256>>, <<"RS", 384>>, <<"RS", 512>>,
     <<"PS", 256>>, <<"PS", 384>>, <<"PS", 512>>,
     <<"ES", 256>>, <<"ES", 384>>, <<"ES", 512>>,
     <<"Ed", 0>>}

jwksVerifyOptionsAlone(options) ==
    IF options.given /\ options.hasAlgs THEN options
    ELSE Opts(TRUE, TRUE, ASYMMETRIC_VERIFICATION_ALGS, 0)

\* The options handed to the provider on the jwks path.
jwksVerifyOptions(options) ==
    IF ~options.given
    THEN Opts(TRUE, TRUE, ASYMMETRIC_VERIFICATION_ALGS, 0)
    ELSE IF ~options.hasAlgs
        THEN [options EXCEPT !.hasAlgs = TRUE, !.algs = ASYMMETRIC_VERIFICATION_ALGS]
        ELSE options

isSymmetricLowerCase(alg) == IsString(alg) /\ alg[1] = "hs"

\* const isSymmetric = typeof alg === 'string' && alg.startsWith('HS')
isSymmetric(alg) == IsString(alg) /\ StartsWithHS(alg)

\* const asymmetricOnly = jwks && !key
asymmetricOnly(c) == Truthy(c.jwks) /\ key(c).form = "undefined"

\* if (jwks && !isSymmetric) ... else ...
UseJwks(c, alg) == Truthy(c.jwks) /\ ~isSymmetric(alg)

\* The body of verify's try block.
verifyTry(c, jwt, options, t) ==
    LET hdr == decodeProtectedHeader(jwt)
    IN  IF hdr.kind = "throw" THEN Throw(hdr.err)
        ELSE IF isSymmetric(hdr.alg) /\ asymmetricOnly(c) THEN Throw("Error")
        ELSE
            LET viaJwks == UseJwks(c, hdr.alg)
                res == IF viaJwks
                       THEN jwtVerify(jwt, c.jwks, jwksVerifyOptions(options), t)
                       ELSE jwtVerify(jwt, key(c), options, t)
                got == [res EXCEPT
                            !.path = IF viaJwks THEN "jwks" ELSE "local",
                            !.handed = IF viaJwks THEN jwksVerifyOptions(options)
                                       ELSE options]
            IN  IF got.kind = "throw" THEN got
                ELSE IF c.schema /\ ~Check(got.data)
                    THEN [got EXCEPT !.kind = "throw", !.val = "",
                                     !.err = "ValidationError", !.data = NoPayload]
                ELSE got

CatchJoseErrorsOnly(o) ==
    IF o.kind = "throw" /\ o.err # "TypeError"
    THEN [o EXCEPT !.kind = "return", !.val = "false"]
    ELSE o

CatchExceptResolver(o) ==
    IF o.kind = "throw" /\ o.err # "ERR_JWKS_TIMEOUT"
    THEN [o EXCEPT !.kind = "return", !.val = "false"]
    ELSE o

\* catch (_) { return false }
Catch(o) ==
    IF o.kind = "throw"
    THEN [o EXCEPT !.kind = "return", !.val = "false"]
    ELSE o

\* if (!jwt) return false
Falsy(jwt) == jwt.shape \in {"undefined", "empty"}

\* jwtDecoration.verify(jwt, options) at time t
verify(c, jwt, options, t) ==
    IF Falsy(jwt) THEN RetFalse ELSE Catch(verifyTry(c, jwt, options, t))

----------------------------------------------------------------------------
(* sign.                                                                   *)

\* What SignJWT's setNotBefore / setExpirationTime / setIssuedAt(input) store
\* at time t: a number as it is, a Date as its epoch seconds, a time-span
\* string as t plus its seconds; any other input is a TypeError.
timeInputVerbatim(input, t) == input

timeInputOk(input) == input.t \in {"number", "date", "string"}
timeInput(input, t) ==
    IF input.t = "string" THEN Num(t + input.v) ELSE Num(input.v)

\* const JWTHeader = { alg: defaultValues.alg ?? 'HS256', ... }
JWTHeaderAlg(c) == IF c.alg = NoAlg THEN HS256 ELSE c.alg

\* defaultValues.x: undefined when x is not configured
Default(x) == IF In(x) THEN x ELSE Undef

JWTHeaderNoTyp(c) ==
    [Header(Default(c.typ), Default(c.kid), Default(c.crit), Default(c.b64))
        EXCEPT !.cty = Default(c.cty)]

\* const JWTHeader = { ..., b64: defaultValues.b64, crit: defaultValues.crit,
\*     kid: defaultValues.kid, typ: defaultValues.typ ?? 'JWT', ... }
JWTHeader(c) ==
    [Header(Coalesce(c.typ, JWT), Default(c.kid), Default(c.crit), Default(c.b64))
        EXCEPT !.cty = Default(c.cty)]

\* The protected header as the provider serializes it: a member whose value
\* is undefined is left out.
setProtectedHeader(h) ==
    [Header(Json(h.typ), Json(h.kid), Json(h.crit), Json(h.b64))
        EXCEPT !.cty = Json(h.cty), !.enc = h.enc]

\* The provider's checks of crit when signing: a JWT must not use an
\* unencoded payload, every critical parameter must be one it recognizes
\* (b64 alone) and be present in the header.  "" when they pass.
validateCrit(h) ==
    IF h.crit = CritB64 /\ h.b64 = FalseV THEN "ERR_JWT_INVALID"
    ELSE IF h.crit \in {Missing, Undef} THEN ""
    ELSE IF h.crit # CritB64 THEN "ERR_JOSE_NOT_SUPPORTED"
    ELSE IF h.b64 \in {Missing, Undef} THEN "ERR_JWS_INVALID"
    ELSE ""

JWTPayloadCoalesced(c, signValue) ==
    Claims(signValue.name, Coalesce(signValue.iss, c.iss), Missing, Missing, Missing)

\* const JWTPayload = { iss: data.iss ?? defaultValues.iss, ..., ...data }
\* (data is signValue without nbf, exp and iat)
JWTPayload(c, signValue) ==
    Claims(signValue.name,
           IF In(signValue.iss) THEN signValue.iss
           ELSE Coalesce(signValue.iss, c.iss),
           Missing, Missing, Missing)

\* const setNbf = 'nbf' in signValue ? nbf : defaultValues.nbf
setNbf(c, signValue) == IF In(signValue.nbf) THEN signValue.nbf ELSE c.nbf

setExpCoalesced(c, signValue) == Coalesce(signValue.exp, c.exp)

\* const setExp = 'exp' in signValue ? exp : defaultValues.exp
setExp(c, signValue) == IF In(signValue.exp) THEN signValue.exp ELSE c.exp

setIatNoDefault(c, signValue) ==
    IF In(signValue.iat) THEN signValue.iat ELSE TrueV

\* const setIat = 'iat' in signValue ? iat : (defaultValues.iat ?? true)
setIat(c, signValue) ==
    IF In(signValue.iat) THEN signValue.iat ELSE Coalesce(c.iat, TrueV)

\* if (setX !== undefined) jwt = jwt.setX(setX)
\* (a default that is not configured reads as undefined)
IsSet(x) == x \notin {Missing, Undef}

\* typeof setIat === 'number' || typeof setIat === 'string' || setIat instanceof Date
iatHasValue(x) == x.t \in {"number", "string", "badstring", "date"}

\* The key sign hands to the provider: key ?? await getKeyForAlg(JWTHeader.alg)
signingKey(c) ==
    IF key(c).form # "undefined" THEN key(c) ELSE getKeyForAlg(c, JWTHeaderAlg(c))

\* jwtDecoration.sign(signValue) at time t
sign(c, signValue, t) ==
    LET alg == JWTHeaderAlg(c)
        base == JWTPayload(c, signValue)
        nbf == setNbf(c, signValue)
        exp == setExp(c, signValue)
        iat == setIat(c, signValue)
        k == signingKey(c)
        hdr == JWTHeader(c)
        payload ==
            [base EXCEPT
                !.nbf = IF IsSet(nbf) THEN timeInput(nbf, t) ELSE Missing,
                !.exp = IF IsSet(exp) THEN timeInput(exp, t) ELSE Missing,
                !.iat = IF iat = TrueV THEN Num(t)
                        ELSE IF iatHasValue(iat) THEN timeInput(iat, t)
                        ELSE Missing]
        stored == Claims(Json(payload.name), Json(payload.iss), Json(payload.exp),
                         Json(payload.nbf), Json(payload.iat))
    IN  IF IsSet(nbf) /\ ~timeInputOk(nbf) THEN Throw("TypeError")
        ELSE IF IsSet(exp) /\ ~timeInputOk(exp) THEN Throw("TypeError")
        ELSE IF iat # TrueV /\ iatHasValue(iat) /\ ~timeInputOk(iat) THEN Throw("TypeError")
        ELSE IF validateCrit(hdr) # "" THEN Throw(validateCrit(hdr))
        ELSE IF k.form = "undefined" \/ ~checkKeyType(alg, k, "sign") THEN Throw("TypeError")
        ELSE IF ~Supported(alg) THEN Throw("ERR_JOSE_NOT_SUPPORTED")
        ELSE RetToken([Tok("compact", alg, stored, k.mat)
                          EXCEPT !.hdr = setProtectedHeader(hdr)])

----------------------------------------------------------------------------
(* Construction.                                                           *)

jwtDecorationWithSign(c) == {"verify", "sign"}

\* The operations of the decoration: let jwtDecoration = { verify }, and
\* if (secret) jwtDecoration.sign = ...
jwtDecoration(c) ==
    {"verify"} \cup (IF Truthy(c.secret) THEN {"sign"} ELSE {})

\* jwt(options): throws if neither secret nor jwks is given, and otherwise
\* returns the plugin that decorates the context with jwtDecoration.
jwtPlugin(c) ==
    IF ~Constructed(c) THEN Throw("Error")
    ELSE Out("return", "plugin", "", NoPayload, NoToken)

----------------------------------------------------------------------------
(* The state machine: one facade, a clock, and calls made one at a time.   *)

Secrets ==
    {UndefinedKey, K("string", ""), K("string", "A"), K("bytes", "A"),
     K("jwk", "A")}
KeySets == {UndefinedKey, KeySet(<<"p1">>, FALSE), KeySet(<<"p1", "p2">>, FALSE),
            KeySet(<<"p1">>, TRUE)}
ConfiguredAlgs == {NoAlg, HS512, RS256}

\* The configurations explored: every key source, schema and algorithm with
\* one default exp, and every combination of default time claims with one
\* key source.
KeyConfigs ==
    {Config(s, j, sch, a, Missing, e, Missing, Missing) :
        s \in Secrets, j \in KeySets, sch \in BOOLEAN, a \in ConfiguredAlgs,
        e \in {Missing}}
DefaultConfigs ==
    {Config(K("string", "A"), UndefinedKey, FALSE, NoAlg, Missing, e, n, i) :
        e \in {Missing, Num(1), Span(1)}, n \in {Missing, Num(1)},
        i \in {Missing, TrueV, FalseV, Num(1)}}
Configs == KeyConfigs \cup DefaultConfigs

\* The per-call claims handed to sign.
SignValues ==
    {[name |-> n, iss |-> Missing, exp |-> e, nbf |-> b, iat |-> i] :
        n \in {Missing, Text},
        e \in {Missing, Undef, Num(1), Span(1), BadStr},
        b \in {Missing, Undef, Num(1)},
        i \in {Missing, Undef, TrueV, FalseV, Num(1), Span(1), DateV(1)}}

\* Tokens that did not come from this facade's sign.
ForeignTokens ==
    {NoToken, EmptyToken, MalformedToken} \cup
    {Tok("compact", a, Claims(n, Missing, e, Missing, Missing), s) :
        a \in {HS256, HS512, HSX, RS256, NoAlg},
        n \in {Missing, Text},
        e \in {Missing, Num(1), Text},
        s \in Materials \cup {"junk"}}

VerifyOptions ==
    {NoOptions, Opts(TRUE, FALSE, {}, 0), Opts(TRUE, TRUE, {HS256}, 0),
     Opts(TRUE, FALSE, {}, 2)}

NoSignValue ==
    [name |-> Missing, iss |-> Missing, exp |-> Missing, nbf |-> Missing, iat |-> Missing]

\* A completed call.  origin says where a verified token came from: "foreign",
\* "signed" (the token this facade's sign returned for signValue at signedAt)
\* or "tampered" (a token verify accepted, its signature segment changed).
Call(op, jwt, signValue, signedAt, options, at, out, origin) ==
    [op |-> op, jwt |-> jwt, signValue |-> signValue, signedAt |-> signedAt,
     options |-> options, at |-> at, out |-> out, origin |-> origin]
NoCall == Call("none", NoToken, NoSignValue, 0, NoOptions, 0, NoOutcome, "")

\* No iteration: i is the next candidate, tried the attempts made so far,
\* each the candidate's position in the set and the error it ended with
\* ("" when it verified the token).
NoLoop == [i |-> 0, cands |-> <<>>, tried |-> <<>>]

Init ==
    /\ cfg \in Configs
    /\ now = 0
    /\ call = NoCall
    /\ loop = NoLoop
    /\ other = NoCall

\* Time passes: between calls, between a sign or encrypt call and the verify
\* or decrypt of its token, and in a verify until the provider reads the clock.
Tick ==
    /\ now < MaxTime
    /\ call.op \in {"none", "sign", "encrypt", "verifying", "start", "decoded", "keyed"}
    /\ now' = now + 1
    /\ UNCHANGED <<cfg, call, loop, other>>

\* jwt.sign(signValue): exists only if (secret).
Sign ==
    /\ call.op = "none"
    /\ Constructed(cfg)
    /\ "sign" \in jwtDecoration(cfg)
    /\ \E sv \in SignValues :
        call' = Call("sign", NoToken, sv, now, NoOptions, now, sign(cfg, sv, now), "")
    /\ UNCHANGED <<cfg, now, loop, other>>

\* jwt.verify(token, options) of a token from elsewhere.
Verify ==
    /\ call.op = "none"
    /\ Constructed(cfg)
    /\ "verify" \in jwtDecoration(cfg)
    /\ \E jwt \in ForeignTokens, o \in VerifyOptions :
        call' = Call("verify", jwt, NoSignValue, 0, o, now,
                     verify(cfg, jwt, o, now), "foreign")
    /\ UNCHANGED <<cfg, now, loop, other>>

\* jwt.verify(token) of the token the last sign call returned.
VerifySigned ==
    /\ call.op = "sign" /\ call.out.kind = "return"
    /\ \E o \in {NoOptions} :
        call' = Call("verify", call.out.token, call.signValue, call.at, o, now,
                     verify(cfg, call.out.token, o, now), "signed")
    /\ UNCHANGED <<cfg, now, loop, other>>

\* jwt.verify of a token that verify accepted, with another signature segment.
VerifyTampered ==
    /\ call.op = "verify" /\ call.out.val = "claims"
    /\ \E s \in (Materials \cup {"junk"}) \ {call.jwt.sig}, o \in VerifyOptions :
        LET jwt == [call.jwt EXCEPT !.sig = s]
        IN  call' = Call("verify", jwt, NoSignValue, 0, o, now,
                         verify(cfg, jwt, o, now), "tampered")
    /\ UNCHANGED <<cfg, now, loop, other>>

\* The caller is done with the last call's result.
Done ==
    /\ call.op \in {"sign", "verify", "encrypt", "decrypt"}
    /\ call' = NoCall
    /\ loop' = NoLoop
    /\ UNCHANGED <<cfg, now, other>>

Next == Tick \/ Sign \/ Verify \/ VerifySigned \/ VerifyTampered \/ Done

Spec == Init /\ [][Next]_vars

\* The same calls, from the call of jwt(options) on.
ConstructionInit ==
    /\ cfg \in Configs
    /\ now = 0
    /\ call = [NoCall EXCEPT !.op = "new"]
    /\ loop = NoLoop
    /\ other = NoCall

\* jwt(options)
Jwt ==
    /\ call.op = "new"
    /\ call' = [NoCall EXCEPT !.op = "jwt", !.out = jwtPlugin(cfg)]
    /\ UNCHANGED <<cfg, now, loop, other>>

\* app.use(plugin): the context is decorated and handlers may call it.
Use ==
    /\ call.op = "jwt" /\ call.out.kind = "return"
    /\ call' = NoCall
    /\ UNCHANGED <<cfg, now, loop, other>>

ConstructionNext == Jwt \/ Use \/ Next

ConstructionSpec == ConstructionInit /\ [][ConstructionNext]_vars

\* The same calls on facades configured with header members.
HeaderConfigs ==
    {[Config(K("string", "A"), UndefinedKey, FALSE, a, Missing, Missing, Missing, Missing)
        EXCEPT !.typ = t, !.kid = k, !.crit = c, !.b64 = b, !.cty = y] :
        a \in {NoAlg, HS512},
        t \in {Missing, JWT, OtherTyp},
        k \in {Missing, Text},
        y \in {Missing, JWT},
        c \in {Missing, CritB64, CritOther},
        b \in {Missing, TrueV, FalseV}}

HeaderInit ==
    /\ cfg \in HeaderConfigs
    /\ now = 0
    /\ call = NoCall
    /\ loop = NoLoop
    /\ other = NoCall

HeaderSpec == HeaderInit /\ [][Next]_vars

----------------------------------------------------------------------------
(* The revision whose secret may be a key-set function                     *)
(* (secret: string | Uint8Array | KeyLike | JWTVerifyGetKey): its verify   *)
(* iterates over the candidate keys when the key set reports several       *)
(* matching keys.                                                          *)

\* Most keys a key set holds.
MaxCandidates == 3

\* const key = typeof secret === 'string' ? new TextEncoder().encode(secret) : secret
candidatesKey(c) ==
    IF c.secret.form = "string" THEN K("bytes", c.secret.mat) ELSE c.secret

\* validator.Check(data) of this revision, for a schema that asks for a
\* string 'name': here iat is typed as a string, nbf and exp as string or number.
candidatesCheck(p) ==
    /\ p.name.t = "text"
    /\ p.iss.t \in {"missing", "text"}
    /\ p.nbf.t \in {"missing", "number", "text"}
    /\ p.exp.t \in {"missing", "number", "text"}
    /\ p.iat.t \in {"missing", "text"}

\* const verifyKey = verifier(key): jwtVerify(jwt, key, options) for a key
\* and for a function alike.
verifyKey(c, jwt, options, t) == jwtVerify(jwt, candidatesKey(c), options, t)

\* for await (const publicKey of error): the keys of the set that match the
\* token's header, in the order of the set.
candidateKeys(c, jwt) ==
    SelectSeq(candidatesKey(c).keys, LAMBDA m : FitsJwk(jwt.alg, m))

candidatesFinishRethrows(c, o) ==
    IF o.kind = "return" /\ c.schema /\ ~candidatesCheck(o.data)
    THEN [o EXCEPT !.val = "false", !.err = "ValidationError", !.data = NoPayload]
    ELSE o

\* if (validator && !validator.Check(data)) throw ...; return data
\* } catch (_) { return false }
candidatesFinish(c, o) ==
    IF o.kind = "throw" THEN [o EXCEPT !.kind = "return", !.val = "false"]
    ELSE IF c.schema /\ ~candidatesCheck(o.data)
        THEN [o EXCEPT !.val = "false", !.err = "ValidationError", !.data = NoPayload]
    ELSE o

continuesNever(err) == FALSE
continuesAlways(err) == TRUE

\* Where the iteration goes after an attempt that ended with err:
\* if (innerError.code === 'ERR_JWS_SIGNATURE_VERIFICATION_FAILED') continue
\* throw innerError
continues(err) == err = "ERR_JWS_SIGNATURE_VERIFICATION_FAILED"

candidatesSignSoft(c, morePayload, t) ==
    IF candidatesKey(c).form = "function" THEN RetFalse
    ELSE RetToken(Tok("compact", JWTHeaderAlg(c),
                      Claims(morePayload.name, Missing, Missing, Missing, Missing),
                      candidatesKey(c).mat))

\* sign(morePayload) at time t: it throws for a secret that is a function,
\* and otherwise signs { ...payload, ...morePayload } with the configured nbf
\* and exp, when truthy, under the header { alg, crit }.
candidatesSign(c, morePayload, t) ==
    LET k == candidatesKey(c)
        alg == JWTHeaderAlg(c)
        hasNbf == In(c.nbf) /\ c.nbf # Num(0)
        hasExp == In(c.exp) /\ c.exp # Num(0)
        stored == Claims(Json(morePayload.name),
                         Json(IF In(morePayload.iss) THEN morePayload.iss ELSE Default(c.iss)),
                         IF hasExp THEN timeInput(c.exp, t) ELSE Missing,
                         IF hasNbf THEN timeInput(c.nbf, t) ELSE Missing,
                         Json(morePayload.iat))
    IN  IF k.form = "function" THEN Throw("TypeError")
        ELSE IF hasNbf /\ ~timeInputOk(c.nbf) THEN Throw("TypeError")
        ELSE IF hasExp /\ ~timeInputOk(c.exp) THEN Throw("TypeError")
        ELSE IF k.form = "undefined" \/ ~checkKeyType(alg, k, "sign") THEN Throw("TypeError")
        ELSE IF ~Supported(alg) THEN Throw("ERR_JOSE_NOT_SUPPORTED")
        ELSE RetToken(Tok("compact", alg, stored, k.mat))

CandidateSets ==
    UNION {[1..n -> RsaMaterial] : n \in 1..MaxCandidates}

CandidatesConfigs ==
    {Config(s, UndefinedKey, sch, NoAlg, Missing, Missing, Missing, Missing) :
        s \in {K("string", "A")} \cup {KeySet(ks, FALSE) : ks \in CandidateSets}
              \cup {KeySet(<<"p1">>, TRUE)},
        sch \in BOOLEAN}

CandidatesTokens ==
    {NoToken, MalformedToken} \cup
    {Tok("compact", a, Claims(n, Missing, e, Missing, i), s) :
        a \in {HS256, RS256},
        n \in {Missing, Text},
        e \in {Missing, Num(1)},
        i \in {Missing, Num(0)},
        s \in {"A", "p1", "p2", "junk"}}

CandidatesInit ==
    /\ cfg \in CandidatesConfigs
    /\ now = 0
    /\ call = NoCall
    /\ loop = NoLoop
    /\ other = NoCall

\* verify(jwt, options) up to the provider's first answer: it returns false
\* for no token, starts the iteration when the key set reports several
\* matching keys, and otherwise finishes with the provider's answer.
CandidatesVerify ==
    /\ call.op = "none"
    /\ \E jwt \in CandidatesTokens, o \in {NoOptions, Opts(TRUE, FALSE, {}, 2)} :
        LET first == verifyKey(cfg, jwt, o, now)
            begun == Call("verifying", jwt, NoSignValue, 0, o, now, NoOutcome, "foreign")
        IN  IF Falsy(jwt)
            THEN /\ call' = [begun EXCEPT !.op = "verify", !.out = RetFalse]
                 /\ loop' = NoLoop
            ELSE IF first.kind = "throw" /\ first.err = "ERR_JWKS_MULTIPLE_MATCHING_KEYS"
            THEN /\ call' = [begun EXCEPT !.out.invoked = first.invoked]
                 /\ loop' = [i |-> 1, cands |-> candidateKeys(cfg, jwt), tried |-> <<>>]
            ELSE /\ call' = [begun EXCEPT !.op = "verify",
                                          !.out = candidatesFinish(cfg, first)]
                 /\ loop' = NoLoop
    /\ UNCHANGED <<cfg, now, other>>

\* One turn of the iteration: jwtVerify(jwt, publicKey, options) with the
\* next candidate; its answer ends the call unless it is a signature failure.
CandidatesAttempt ==
    /\ call.op = "verifying"
    /\ loop.i <= Len(loop.cands)
    /\ LET r == jwtVerify(call.jwt, K("public", loop.cands[loop.i]), call.options, now)
           tried == Append(loop.tried, [k |-> loop.i, err |-> r.err])
           checked == call.out.checked + r.checked
       IN  IF r.kind = "throw" /\ continues(r.err)
           THEN /\ loop' = [loop EXCEPT !.i = @ + 1, !.tried = tried]
                /\ call' = [call EXCEPT !.out.checked = checked]
           ELSE /\ loop' = [loop EXCEPT !.tried = tried]
                /\ call' = [call EXCEPT
                                !.op = "verify",
                                !.out = [candidatesFinish(cfg, r) EXCEPT
                                            !.invoked = call.out.invoked,
                                            !.checked = checked]]
    /\ UNCHANGED <<cfg, now, other>>

\* No candidate is left: throw new errors.JWSSignatureVerificationFailed()
CandidatesExhausted ==
    /\ call.op = "verifying"
    /\ loop.i > Len(loop.cands)
    /\ call' = [call EXCEPT
                    !.op = "verify",
                    !.out = [candidatesFinish(cfg, Throw("ERR_JWS_SIGNATURE_VERIFICATION_FAILED"))
                                EXCEPT !.invoked = call.out.invoked,
                                       !.checked = call.out.checked]]
    /\ UNCHANGED <<cfg, now, loop, other>>

\* sign(morePayload)
CandidatesSign ==
    /\ call.op = "none"
    /\ \E sv \in {[name |-> n, iss |-> Missing, exp |-> Missing, nbf |-> Missing,
                    iat |-> Missing] : n \in {Missing, Text}} :
        call' = Call("sign", NoToken, sv, now, NoOptions, now,
                     candidatesSign(cfg, sv, now), "")
    /\ UNCHANGED <<cfg, now, loop, other>>

CandidatesNext ==
    \/ Tick \/ CandidatesVerify \/ CandidatesAttempt \/ CandidatesExhausted
    \/ CandidatesSign \/ Done

CandidatesSpec == CandidatesInit /\ [][CandidatesNext]_vars

----------------------------------------------------------------------------
(* The revision with encrypt and decrypt: its secret is the one key of     *)
(* every operation, and cfg.alg and cfg.enc are the configured JWE         *)
(* algorithms.  The "sig" of an encrypted token names the key material it  *)
(* was encrypted for.                                                      *)

RSA_OAEP_256 == <<"RSA-OAEP", 256>>
Dir == <<"dir", 0>>
A256GCM == <<"AGCM", 256>>
A128GCM == <<"AGCM", 128>>

\* const key = typeof secret === 'string' ? new TextEncoder().encode(secret) : secret
jweKey(c) ==
    IF c.secret.form = "string" THEN K("bytes", c.secret.mat) ELSE c.secret

\* validator.Check(data) of this revision, for a schema that asks for a
\* string 'name': nbf, exp and iat are numbers.
jweCheck(p) ==
    /\ p.name.t = "text"
    /\ p.iss.t \in {"missing", "text"}
    /\ p.nbf.t \in {"missing", "number"}
    /\ p.exp.t \in {"missing", "number"}
    /\ p.iat.t \in {"missing", "number"}

\* The provider's JWE side.  It implements these algorithms; direct
\* encryption takes an octet key (here of 32 bytes, the key length of
\* A256GCM), RSA-OAEP-256 a public key to encrypt and a private one to decrypt.
jweSupported(alg, enc) == alg \in {RSA_OAEP_256, Dir} /\ enc \in {A256GCM, A128GCM}
jweKeyType(alg, k, usage) ==
    IF alg = Dir
    THEN k.form \in {"bytes", "jwk"} /\ k.mat \in OctMaterial
    ELSE /\ k.mat \in RsaMaterial
         /\ k.form = (IF usage = "encrypt" THEN "public" ELSE "private")
cekFits(alg, enc) == alg = Dir => enc = A256GCM

\* Decryption of one token with one key of the right type.
decrypts(jwt, k) == jwt.sig = k.mat

\* jwtDecrypt(jwt, key, options) at time t
jwtDecrypt(jwt, k, options, t) ==
    IF jwt.shape # "compact" THEN Throw("ERR_JWE_INVALID")
    ELSE IF ~IsString(jwt.alg) \/ ~IsString(jwt.hdr.enc) THEN Throw("ERR_JWE_INVALID")
    ELSE IF ~jweSupported(jwt.alg, jwt.hdr.enc) THEN Throw("ERR_JOSE_NOT_SUPPORTED")
    ELSE IF ~jweKeyType(jwt.alg, k, "decrypt") THEN Throw("TypeError")
    ELSE IF ~cekFits(jwt.alg, jwt.hdr.enc) THEN Throw("ERR_JWE_INVALID")
    ELSE IF ~decrypts(jwt, k)
        THEN [Throw("ERR_JWE_DECRYPTION_FAILED") EXCEPT !.checked = 1]
    ELSE [validateClaimsSet(jwt.payload, options, t) EXCEPT !.checked = 1]

JWEHeaderNoDefaults(c) ==
    [Header(Default(c.typ), Default(c.kid), Default(c.crit), Missing)
        EXCEPT !.cty = Default(c.cty), !.enc = c.enc]

\* const JWTHeader = { alg: defaultValues.alg ?? 'RSA-OAEP-256',
\*     enc: defaultValues.enc ?? 'A256GCM', crit: defaultValues.crit,
\*     cty: defaultValues.cty ?? 'JWT', kid: defaultValues.kid,
\*     typ: defaultValues.typ ?? 'JWT', ... } (alg is kept apart, as in a token)
JWEHeaderAlg(c) == IF c.alg = NoAlg THEN RSA_OAEP_256 ELSE c.alg
JWEHeader(c) ==
    [Header(Coalesce(c.typ, JWT), Default(c.kid), Default(c.crit), Missing)
        EXCEPT !.cty = Coalesce(c.cty, JWT),
               !.enc = IF c.enc = NoAlg THEN A256GCM ELSE c.enc]

encryptClaimsNoIat(c, signValue, t) ==
    Ret(Claims(Json(signValue.name), Json(signValue.iss), Missing, Missing, Missing))

\* encrypt, up to the provider operation: JWTPayload with the resolved nbf,
\* exp and iat, or the TypeError of a time input the provider refuses.
encryptClaims(c, signValue, t) ==
    LET nbf == IF In(signValue.nbf) THEN signValue.nbf ELSE Default(c.nbf)
        exp == IF In(signValue.exp) THEN signValue.exp ELSE Default(c.exp)
        iat == IF In(signValue.iat) THEN signValue.iat ELSE Default(c.iat)
        payload ==
            Claims(Json(signValue.name),
                   Json(IF In(signValue.iss) THEN signValue.iss
                        ELSE Coalesce(signValue.iss, c.iss)),
                   IF exp # Undef THEN timeInput(exp, t) ELSE Missing,
                   IF nbf # Undef THEN timeInput(nbf, t) ELSE Missing,
                   IF iat # FalseV THEN Num(t) ELSE Missing)
    IN  IF nbf # Undef /\ ~timeInputOk(nbf) THEN Throw("TypeError")
        ELSE IF exp # Undef /\ ~timeInputOk(exp) THEN Throw("TypeError")
        ELSE Ret(payload)

\* encrypt(signValue) at time t
encrypt(c, signValue, t) ==
    LET alg == JWEHeaderAlg(c)
        hdr == JWEHeader(c)
        k == jweKey(c)
        claims == encryptClaims(c, signValue, t)
    IN  IF claims.kind = "throw" THEN claims
        ELSE IF IsSet(hdr.crit) THEN Throw("ERR_JOSE_NOT_SUPPORTED")
        ELSE IF ~jweSupported(alg, hdr.enc) THEN Throw("ERR_JOSE_NOT_SUPPORTED")
        ELSE IF ~jweKeyType(alg, k, "encrypt") THEN Throw("TypeError")
        ELSE IF ~cekFits(alg, hdr.enc) THEN Throw("ERR_JWE_INVALID")
        ELSE RetToken([Tok("compact", alg, claims.data, k.mat)
                          EXCEPT !.hdr = setProtectedHeader(hdr)])

\* sign of this revision, up to the provider operation: const setNbf =
\* 'nbf' in signValue ? nbf : defaultValues.nbf, the same for exp, and
\* const setIat = 'iat' in signValue ? iat : defaultValues.iat;
\* if (setIat !== false) jwt.setIssuedAt(new Date())
jweSignClaims(c, signValue, t) ==
    LET setNbfV == IF In(signValue.nbf) THEN signValue.nbf ELSE Default(c.nbf)
        setExpV == IF In(signValue.exp) THEN signValue.exp ELSE Default(c.exp)
        setIatV == IF In(signValue.iat) THEN signValue.iat ELSE Default(c.iat)
        iss == IF In(signValue.iss) THEN signValue.iss
               ELSE Coalesce(signValue.iss, c.iss)
        stamped == IF setIatV # FalseV THEN Num(t) ELSE Missing
    IN  IF setNbfV # Undef /\ ~timeInputOk(setNbfV) THEN Throw("TypeError")
        ELSE IF setExpV # Undef /\ ~timeInputOk(setExpV) THEN Throw("TypeError")
        ELSE Ret(Claims(Json(signValue.name), Json(iss),
                        IF setExpV # Undef THEN timeInput(setExpV, t) ELSE Missing,
                        IF setNbfV # Undef THEN timeInput(setNbfV, t) ELSE Missing,
                        stamped))

\* sign(signValue) of this revision at time t: jwt.sign(key)
jweSign(c, signValue, t) ==
    LET alg == JWTHeaderAlg(c)
        hdr == JWTHeader(c)
        k == jweKey(c)
        claims == jweSignClaims(c, signValue, t)
    IN  IF claims.kind = "throw" THEN claims
        ELSE IF validateCrit(hdr) # "" THEN Throw(validateCrit(hdr))
        ELSE IF ~checkKeyType(alg, k, "sign") THEN Throw("TypeError")
        ELSE IF ~Supported(alg) THEN Throw("ERR_JOSE_NOT_SUPPORTED")
        ELSE RetToken([Tok("compact", alg, claims.data, k.mat)
                          EXCEPT !.hdr = setProtectedHeader(hdr)])

\* The body of decrypt's try block.
decryptTry(c, jwt, options, t) ==
    LET got == [jwtDecrypt(jwt, jweKey(c), options, t) EXCEPT !.path = "local"]
    IN  IF got.kind = "throw" THEN got
        ELSE IF c.schema /\ ~jweCheck(got.data)
            THEN [got EXCEPT !.kind = "throw", !.val = "",
                             !.err = "ValidationError", !.data = NoPayload]
        ELSE got

decryptCatchJoseErrorsOnly(o) ==
    IF o.kind = "throw" /\ o.err # "TypeError"
    THEN [o EXCEPT !.kind = "return", !.val = "false"]
    ELSE o

\* catch (_) { return false }
decryptCatch(o) ==
    IF o.kind = "throw"
    THEN [o EXCEPT !.kind = "return", !.val = "false"]
    ELSE o

\* decrypt(jwt, options) at time t
decrypt(c, jwt, options, t) ==
    IF Falsy(jwt) THEN RetFalse ELSE decryptCatch(decryptTry(c, jwt, options, t))

EncryptConfigs ==
    {[Config(s, UndefinedKey, sch, a, Missing, Missing, Missing, Missing)
        EXCEPT !.enc = e, !.typ = t, !.cty = y] :
        s \in {K("string", "A"), K("bytes", "B"), K("public", "p1"), K("private", "p1")},
        sch \in BOOLEAN,
        a \in {NoAlg, Dir, HS256},
        e \in {NoAlg, A128GCM},
        t \in {Missing, OtherTyp},
        y \in {Missing, OtherTyp}}

EncryptValues ==
    {[name |-> n, iss |-> Missing, exp |-> e, nbf |-> Missing, iat |-> i] :
        n \in {Missing, Text},
        e \in {Missing, Num(1), Span(1), BadStr},
        i \in {Missing, FalseV, Num(0)}}

\* Encrypted tokens that did not come from this facade's encrypt.
EncryptedTokens ==
    {NoToken, EmptyToken, MalformedToken} \cup
    {[Tok("compact", a, Claims(n, Missing, e, Missing, Missing), r)
        EXCEPT !.hdr.enc = A256GCM] :
        a \in {Dir, RSA_OAEP_256},
        n \in {Missing, Text},
        e \in {Missing, Num(1), Text},
        r \in {"A", "B", "p1", "p2"}}

DecryptOptions == {NoOptions, Opts(TRUE, FALSE, {}, 0), Opts(TRUE, FALSE, {}, 2)}

EncryptInit ==
    /\ cfg \in EncryptConfigs
    /\ now = 0
    /\ call = NoCall
    /\ loop = NoLoop
    /\ other = NoCall

\* jwt.encrypt(signValue)
Encrypt ==
    /\ call.op = "none"
    /\ \E sv \in EncryptValues :
        call' = Call("encrypt", NoToken, sv, now, NoOptions, now,
                     encrypt(cfg, sv, now), "")
    /\ UNCHANGED <<cfg, now, loop, other>>

\* jwt.decrypt(token, options) of a token from elsewhere.
Decrypt ==
    /\ call.op = "none"
    /\ \E jwt \in EncryptedTokens, o \in DecryptOptions :
        call' = Call("decrypt", jwt, NoSignValue, 0, o, now,
                     decrypt(cfg, jwt, o, now), "foreign")
    /\ UNCHANGED <<cfg, now, loop, other>>

\* jwt.decrypt(token) of the token the last encrypt call returned.
DecryptEncrypted ==
    /\ call.op = "encrypt" /\ call.out.kind = "return"
    /\ \E o \in DecryptOptions :
        call' = Call("decrypt", call.out.token, call.signValue, call.at, o, now,
                     decrypt(cfg, call.out.token, o, now), "encrypted")
    /\ UNCHANGED <<cfg, now, loop, other>>

\* jwt.sign(signValue) of this revision
JweSign ==
    /\ call.op = "none"
    /\ \E sv \in EncryptValues :
        call' = Call("sign", NoToken, sv, now, NoOptions, now,
                     jweSign(cfg, sv, now), "")
    /\ UNCHANGED <<cfg, now, loop, other>>

EncryptNext == Tick \/ Encrypt \/ JweSign \/ Decrypt \/ DecryptEncrypted \/ Done

EncryptSpec == EncryptInit /\ [][EncryptNext]_vars

----------------------------------------------------------------------------
(* The revision whose sign takes the time claims from the per-call claims  *)
(* by value (data.nbf !== undefined, data.iat !== false) and whose verify  *)
(* takes no options.                                                       *)

\* const key = typeof secret === 'string' ? new TextEncoder().encode(secret) : secret
indexKey(c) ==
    IF c.secret.form = "string" THEN K("bytes", c.secret.mat) ELSE c.secret

\* sign(data) at time t.  The payload starts as { ..., ...data }, nbf, exp
\* and iat of data included, and the setters overwrite what they set.
indexSign(c, data, t) ==
    LET alg == IF c.alg = NoAlg THEN HS256 ELSE c.alg
        hdr == JWTHeader(c)
        k == indexKey(c)
        hasNbf == IsSet(data.nbf) \/ IsSet(c.nbf)
        hasExp == IsSet(data.exp) \/ IsSet(c.exp)
        hasIat == Default(c.iat) # FalseV \/ Default(data.iat) # FalseV
        nbf == Coalesce(data.nbf, c.nbf)
        exp == Coalesce(data.exp, c.exp)
        payload ==
            Claims(Json(data.name),
                   Json(IF In(data.iss) THEN data.iss ELSE Coalesce(data.iss, c.iss)),
                   IF hasExp THEN timeInput(exp, t) ELSE Json(data.exp),
                   IF hasNbf THEN timeInput(nbf, t) ELSE Json(data.nbf),
                   IF hasIat THEN Num(t) ELSE Json(data.iat))
    IN  IF hasNbf /\ ~timeInputOk(nbf) THEN Throw("TypeError")
        ELSE IF hasExp /\ ~timeInputOk(exp) THEN Throw("TypeError")
        ELSE IF validateCrit(hdr) # "" THEN Throw(validateCrit(hdr))
        ELSE IF k.form = "undefined" \/ ~checkKeyType(alg, k, "sign") THEN Throw("TypeError")
        ELSE IF ~Supported(alg) THEN Throw("ERR_JOSE_NOT_SUPPORTED")
        ELSE RetToken([Tok("compact", alg, payload, k.mat)
                          EXCEPT !.hdr = setProtectedHeader(hdr)])

\* validator.Check(data) of this revision, for a schema that asks for a
\* string 'name': nbf, exp and iat are each a string or a number.
indexCheck(p) ==
    /\ p.name.t = "text"
    /\ p.iss.t \in {"missing", "text"}
    /\ p.nbf.t \in {"missing", "number", "text"}
    /\ p.exp.t \in {"missing", "number", "text"}
    /\ p.iat.t \in {"missing", "number", "text"}

\* verify(jwt) at time t
indexVerify(c, jwt, t) ==
    IF Falsy(jwt) THEN RetFalse
    ELSE LET got == [jwtVerify(jwt, indexKey(c), NoOptions, t) EXCEPT !.path = "local"]
         IN  IF got.kind = "throw"
             THEN [got EXCEPT !.kind = "return", !.val = "false"]
             ELSE IF c.schema /\ ~indexCheck(got.data)
                 THEN [got EXCEPT !.val = "false", !.err = "ValidationError",
                                  !.data = NoPayload]
             ELSE got

IndexConfigs ==
    {Config(K("string", "A"), UndefinedKey, sch, NoAlg, Missing, e, Missing, i) :
        sch \in BOOLEAN,
        e \in {Missing, Num(1), Span(1)},
        i \in {Missing, TrueV, FalseV}}

IndexValues ==
    {[name |-> n, iss |-> Missing, exp |-> e, nbf |-> Missing, iat |-> i] :
        n \in {Missing, Text},
        e \in {Missing, Undef, Num(2)},
        i \in {Missing, TrueV, FalseV}}

IndexInit ==
    /\ cfg \in IndexConfigs
    /\ now = 0
    /\ call = NoCall
    /\ loop = NoLoop
    /\ other = NoCall

\* jwt.sign(data)
IndexSign ==
    /\ call.op = "none"
    /\ \E data \in IndexValues :
        call' = Call("sign", NoToken, data, now, NoOptions, now,
                     indexSign(cfg, data, now), "")
    /\ UNCHANGED <<cfg, now, loop, other>>

\* jwt.verify(token) of the token the last sign call returned.
IndexVerifySigned ==
    /\ call.op = "sign" /\ call.out.kind = "return"
    /\ call' = Call("verify", call.out.token, call.signValue, call.at, NoOptions, now,
                    indexVerify(cfg, call.out.token, now), "signed")
    /\ UNCHANGED <<cfg, now, loop, other>>

IndexNext == Tick \/ IndexSign \/ IndexVerifySigned \/ Done

IndexSpec == IndexInit /\ [][IndexNext]_vars

----------------------------------------------------------------------------
(* The revision configured with a secret or with a privateKey and a        *)
(* publicKey: its constructor.                                             *)

keypairPluginLenient(c) ==
    IF ~Truthy(c.secret) /\ ~Truthy(c.privateKey) /\ ~Truthy(c.publicKey)
    THEN Throw("Error")
    ELSE Out("return", "plugin", "", NoPayload, NoToken)

\* jwt(options): the four checks on secret, privateKey and publicKey; the
\* path of the outcome records the asymmetric flag.
keypairPlugin(c) ==
    LET s == Truthy(c.secret)
        priv == Truthy(c.privateKey)
        pub == Truthy(c.publicKey)
    IN  IF s /\ (priv \/ pub) THEN Throw("Error")
        ELSE IF priv /\ ~pub THEN Throw("Error")
        ELSE IF pub /\ ~priv THEN Throw("Error")
        ELSE IF priv /\ priv
            THEN [Out("return", "plugin", "", NoPayload, NoToken)
                    EXCEPT !.path = "asymmetric"]
        ELSE IF ~s THEN Throw("Error")
        ELSE [Out("return", "plugin", "", NoPayload, NoToken)
                    EXCEPT !.path = "symmetric"]

KeypairConfigs ==
    {[Config(s, UndefinedKey, sch, a, Missing, Missing, Missing, Missing)
        EXCEPT !.privateKey = priv, !.publicKey = pub] :
        s \in {UndefinedKey, K("string", ""), K("string", "A"), K("bytes", "A")},
        priv \in {UndefinedKey, K("private", "p1"), K("bytes", "B")},
        pub \in {UndefinedKey, K("public", "p1"), K("bytes", "B")},
        sch \in BOOLEAN,
        a \in {NoAlg, RS256}}

KeypairInit ==
    /\ cfg \in KeypairConfigs
    /\ now = 0
    /\ call = [NoCall EXCEPT !.op = "new"]
    /\ loop = NoLoop
    /\ other = NoCall

\* jwt(options)
KeypairJwt ==
    /\ call.op = "new"
    /\ call' = [NoCall EXCEPT !.op = "jwt", !.out = keypairPlugin(cfg)]
    /\ UNCHANGED <<cfg, now, loop, other>>

KeypairSpec == KeypairInit /\ [][KeypairJwt]_vars

----------------------------------------------------------------------------
(* Two handlers on one facade: one makes a verify call, taken step by step *)
(* (header decode, key selection, provider verification, schema check,     *)
(* return), and the other makes sign calls meanwhile.  loop.tried lists    *)
(* the steps the verify has run, each with the error it ended with ("" for *)
(* none); call.op is the point the verify has reached.                     *)

stepOn(o, next) == next

\* Where a verify goes after a step: a throw inside the try block leaves it
\* for the catch clause, which ends the call.
step(o, next) == IF o.kind = "throw" THEN "verify" ELSE next

afterSignMerged(c, signValue) ==
    [c EXCEPT !.iss = IF In(signValue.iss) THEN signValue.iss ELSE @]

\* What a sign call leaves of the facade's closure (key, default values,
\* validator): JWTHeader and JWTPayload are objects of the call, and nothing
\* is assigned outside it.
afterSign(c, signValue) == c

HandlersInit ==
    /\ cfg \in {Config(s, j, sch, NoAlg, i, Missing, Missing, Missing) :
                    s \in {UndefinedKey, K("string", "A"), K("jwk", "A")},
                    j \in {UndefinedKey, KeySet(<<"p1">>, FALSE), KeySet(<<"p1">>, TRUE)},
                    sch \in BOOLEAN,
                    i \in {Missing, Text}}
    /\ Constructed(cfg)
    /\ now = 0
    /\ call = NoCall
    /\ loop = NoLoop
    /\ other = NoCall

\* verify(jwt, options) is called: if (!jwt) return false
VerifyStart ==
    /\ call.op = "none"
    /\ \E jwt \in {NoToken, MalformedToken} \cup
                  {Tok("compact", a, Claims(n, Missing, e, Missing, Missing), sg) :
                      a \in {HS256, RS256}, n \in {Missing, Text},
                      e \in {Missing, Num(1)}, sg \in {"A", "p1", "junk"}},
          o \in {NoOptions, Opts(TRUE, FALSE, {}, 2)} :
        call' = Call(IF Falsy(jwt) THEN "verify" ELSE "start", jwt, NoSignValue, 0,
                     o, now, IF Falsy(jwt) THEN RetFalse ELSE NoOutcome, "foreign")
    /\ loop' = NoLoop
    /\ UNCHANGED <<cfg, now, other>>

\* const { alg } = decodeProtectedHeader(jwt)
DecodeHeader ==
    /\ call.op = "start"
    /\ LET hdr == decodeProtectedHeader(call.jwt)
           o == IF hdr.kind = "throw" THEN Throw(hdr.err) ELSE call.out
       IN  /\ call' = [call EXCEPT !.op = step(o, "decoded"), !.out = Catch(o)]
           /\ loop' = [loop EXCEPT !.tried = Append(@, [k |-> 1, err |-> o.err])]
    /\ UNCHANGED <<cfg, now, other>>

\* if (isSymmetric && asymmetricOnly) throw ...; if (jwks && !isSymmetric) ... else ...
SelectKey ==
    /\ call.op = "decoded"
    /\ LET o == IF isSymmetric(call.jwt.alg) /\ asymmetricOnly(cfg) THEN Throw("Error")
                ELSE call.out
       IN  /\ call' = [call EXCEPT !.op = step(o, "keyed"), !.out = Catch(o)]
           /\ loop' = [loop EXCEPT !.tried = Append(@, [k |-> 2, err |-> o.err])]
    /\ UNCHANGED <<cfg, now, other>>

\* payload = (await jwtVerify(jwt, jwks, jwksVerifyOptions)).payload, or
\* payload = (await jwtVerify(jwt, key!, options)).payload
ProviderVerify ==
    /\ call.op = "keyed"
    /\ LET viaJwks == UseJwks(cfg, call.jwt.alg)
           res == IF viaJwks
                  THEN jwtVerify(call.jwt, cfg.jwks, jwksVerifyOptions(call.options), now)
                  ELSE jwtVerify(call.jwt, key(cfg), call.options, now)
           o == [res EXCEPT !.path = IF viaJwks THEN "jwks" ELSE "local",
                            !.handed = IF viaJwks THEN jwksVerifyOptions(call.options)
                                       ELSE call.options]
       IN  /\ call' = [call EXCEPT !.op = step(o, "verified"), !.out = Catch(o),
                                   !.at = now]
           /\ loop' = [loop EXCEPT !.tried = Append(@, [k |-> 3, err |-> o.err])]
    /\ UNCHANGED <<cfg, now, other>>

\* if (validator && !validator.Check(data)) throw new ValidationError(...)
SchemaCheck ==
    /\ call.op = "verified"
    /\ LET o == IF cfg.schema /\ ~Check(call.out.data)
                THEN [call.out EXCEPT !.kind = "throw", !.val = "",
                                      !.err = "ValidationError", !.data = NoPayload]
                ELSE call.out
       IN  /\ call' = [call EXCEPT !.op = step(o, "checked"), !.out = Catch(o)]
           /\ loop' = [loop EXCEPT !.tried = Append(@, [k |-> 4, err |-> o.err])]
    /\ UNCHANGED <<cfg, now, other>>

\* return data
ReturnClaims ==
    /\ call.op = "checked"
    /\ call' = [call EXCEPT !.op = "verify"]
    /\ loop' = [loop EXCEPT !.tried = Append(@, [k |-> 5, err |-> ""])]
    /\ UNCHANGED <<cfg, now, other>>

\* The other handler calls jwt.sign(signValue), at any point of the verify.
OtherSign ==
    /\ other.op = "none"
    /\ "sign" \in jwtDecoration(cfg)
    /\ \E sv \in {[name |-> Text, iss |-> i, exp |-> Missing, nbf |-> Missing,
                   iat |-> Missing] : i \in {Missing, Undef, NullV, OtherText}} :
        /\ other' = Call("sign", NoToken, sv, now, NoOptions, now, sign(cfg, sv, now), "")
        /\ cfg' = afterSign(cfg, sv)
    /\ UNCHANGED <<now, call, loop>>

\* The other handler is done with its call's result.
OtherDone ==
    /\ other.op = "sign"
    /\ other' = NoCall
    /\ UNCHANGED <<cfg, now, call, loop>>

HandlersNext ==
    \/ Tick \/ VerifyStart \/ DecodeHeader \/ SelectKey \/ ProviderVerify
    \/ SchemaCheck \/ ReturnClaims \/ Done \/ OtherSign \/ OtherDone

HandlersSpec == HandlersInit /\ [][HandlersNext]_vars

----------------------------------------------------------------------------
(* Properties of verify and sign.                                          *)

Verified == call.op = "verify"
Signed == call.op = "sign" /\ call.out.kind = "return"
Compact == call.jwt.shape = "compact"

\* The octet material of the configured secret, and the keys of the key set.
SecretMaterial == IF Truthy(cfg.secret) THEN {cfg.secret.mat} ELSE {}
KeySetMaterial ==
    IF Truthy(cfg.jwks) THEN {cfg.jwks.keys[i] : i \in DOMAIN cfg.jwks.keys} ELSE {}

\* Inputs that must fail: no token, no compact JWS, a signature under no
\* configured key, an expired or not yet valid token, a payload the schema
\* rejects, a key set whose fetch fails.
BadInput ==
    \/ ~Compact
    \/ call.jwt.sig \notin SecretMaterial \cup KeySetMaterial
    \/ /\ call.jwt.payload.exp.t = "number"
       /\ call.jwt.payload.exp.v + call.options.tol < call.at
    \/ /\ call.jwt.payload.nbf.t = "number"
       /\ call.jwt.payload.nbf.v > call.at + call.options.tol
    \/ cfg.schema /\ call.jwt.payload.name.t # "text"
    \/ Truthy(cfg.jwks) /\ cfg.jwks.fails /\ ~StartsWithHS(call.jwt.alg)

\* C1: verify never throws: every verify call returns, and it returns false
\* for an absent, empty or malformed token, a token signed with another key,
\* an expired or not yet valid token, a payload that fails the schema and a
\* key-resolver failure.
C1_VerifyNeverThrows ==
    Verified =>
        /\ call.out.kind = "return"
        /\ call.out.val \in {"false", "claims"}
        /\ BadInput => call.out.val = "false"

\* A verify call whose try block threw a TypeError (the token is no compact
\* JWS) and that returned false.
C1_Witness ==
    /\ Verified /\ call.jwt = MalformedToken
    /\ call.out.err = "TypeError" /\ call.out.val = "false"

\* The claims sign resolves for signValue at time t, from the per-call value
\* when the key is present and the configured default otherwise.
Resolved(perCall, default) == IF perCall # Missing THEN perCall ELSE default
Seconds(x, t) == IF x.t = "string" THEN Num(t + x.v) ELSE Num(x.v)
ResolvedClaim(x, t) == IF x \in {Missing, Undef} THEN Missing ELSE Seconds(x, t)
ResolvedIat(x, t) ==
    IF x = TrueV THEN Num(t)
    ELSE IF x.t \in {"number", "string", "date"} THEN Seconds(x, t)
    ELSE Missing

\* A verify of the token sign returned, at a time when its resolved exp is
\* still ahead and its resolved nbf is not, for claims of the schema's type.
RoundTrip ==
    /\ Verified /\ call.origin = "signed"
    /\ call.jwt.payload.exp # Missing => call.jwt.payload.exp.v > call.at
    /\ call.jwt.payload.nbf # Missing => call.jwt.payload.nbf.v <= call.at
    /\ cfg.schema => call.signValue.name = Text

\* C2: round trip: for a facade with a secret, verify(sign(C)) is not false
\* and holds every custom claim of C and exp, nbf, iat as sign resolved them.
C2_RoundTrip ==
    RoundTrip =>
        /\ call.out.val = "claims"
        /\ call.out.data.name = Json(call.signValue.name)
        /\ call.out.data.exp =
            ResolvedClaim(Resolved(call.signValue.exp, cfg.exp), call.signedAt)
        /\ call.out.data.nbf =
            ResolvedClaim(Resolved(call.signValue.nbf, cfg.nbf), call.signedAt)
        /\ call.out.data.iat =
            ResolvedIat(Resolved(call.signValue.iat, Coalesce(cfg.iat, TrueV)),
                        call.signedAt)

\* C3: with secret and jwks both configured, an HS* token is checked against
\* the local secret and jwks is never invoked for it, any other token is
\* handed to jwks and never checked against the local secret; the facade's
\* own HS256 token verifies, and so does an RS256 token signed by the one key
\* the key set resolves it to.
C3_SymmetricJwksIsolation ==
    Verified /\ Compact /\ Truthy(cfg.secret) /\ Truthy(cfg.jwks) =>
        /\ isSymmetric(call.jwt.alg) =>
            /\ call.out.path = "local" /\ call.out.invoked = 0
            /\ call.out.checked = 1 =>
                (call.out.val = "claims" => call.jwt.sig = cfg.secret.mat)
        /\ ~isSymmetric(call.jwt.alg) => call.out.path # "local"
        /\ RoundTrip /\ call.jwt.alg = HS256 => call.out.val = "claims"
        /\ /\ call.jwt.alg = RS256 /\ call.options = NoOptions
           /\ ~cfg.jwks.fails /\ cfg.jwks.keys = <<call.jwt.sig>>
           /\ call.jwt.payload.exp = Missing
           /\ cfg.schema => call.jwt.payload.name = Text
           => call.out.val = "claims"

\* The algorithms a call accepts: the caller's list when it passes one;
\* otherwise the facade's configured alg and, with jwks, the asymmetric ones.
Acceptable ==
    IF call.options.hasAlgs THEN call.options.algs
    ELSE {JWTHeaderAlg(cfg)} \cup
         (IF Truthy(cfg.jwks) THEN ASYMMETRIC_VERIFICATION_ALGS ELSE {})

\* C4: algorithm confinement: verify returns false for every token whose
\* header declares an algorithm outside the acceptable set, on the local
\* path as on the jwks path, whatever the key material would validate.
C4_AlgorithmConfinement ==
    Verified /\ Compact /\ call.jwt.alg \notin Acceptable => call.out.val = "false"

\* C5: with only jwks configured (no secret), verify returns false for every
\* token whose header alg starts with 'HS', and jwks is not invoked for it.
C5_NoSecretRejectsHS ==
    /\ Verified /\ Compact
    /\ ~Truthy(cfg.secret) /\ Truthy(cfg.jwks)
    /\ IsString(call.jwt.alg) /\ StartsWithHS(call.jwt.alg)
    => call.out.val = "false" /\ call.out.invoked = 0

\* An HS256 token reaches a facade that has a key set and no secret, with
\* options whose algorithms list names HS256.
C5_Witness ==
    /\ Verified /\ cfg.secret = UndefinedKey /\ Truthy(cfg.jwks)
    /\ call.jwt.alg = HS256 /\ call.jwt.sig = "A"
    /\ call.options.hasAlgs /\ HS256 \in call.options.algs
    /\ call.out.val = "false" /\ call.out.invoked = 0

\* The signature of the token under verification is the configured key's.
ValidSignature ==
    /\ Compact
    /\ \/ isSymmetric(call.jwt.alg) /\ call.jwt.sig \in SecretMaterial
       \/ ~isSymmetric(call.jwt.alg) /\ call.jwt.sig \in KeySetMaterial

\* C6 as the spec states it: verify returns false for every token whose exp
\* is earlier than the time of verification.
C6_ExpiredRejected ==
    /\ Verified /\ Compact
    /\ call.jwt.payload.exp.t = "number"
    /\ call.jwt.payload.exp.v < call.at
    => call.out.val = "false"

\* C6, amended: verify returns false for every token whose exp is earlier
\* than the time of verification less the clock tolerance the caller passed
\* in options (none by default), even when its signature is valid.
C6_ExpiredRejectedBeyondTolerance ==
    /\ Verified /\ Compact
    /\ call.jwt.payload.exp.t = "number"
    /\ call.jwt.payload.exp.v < call.at - call.options.tol
    => call.out.val = "false"

\* A token with a valid signature and a past exp was refused as expired.
C6_Witness ==
    /\ Verified /\ ValidSignature
    /\ call.jwt.payload.exp.t = "number"
    /\ call.jwt.payload.exp.v < call.at - call.options.tol
    /\ call.out.err = "ERR_JWT_EXPIRED" /\ call.out.val = "false"

\* C7: tamper rejection: a token that verify accepted, with its signature
\* segment changed (or signed with a different key), makes verify return false.
C7_TamperRejected ==
    Verified /\ call.origin = "tampered" => call.out.val = "false"

\* The tampered token reached the signature check and failed it.
C7_Witness ==
    /\ Verified /\ call.origin = "tampered"
    /\ call.out.err = "ERR_JWS_SIGNATURE_VERIFICATION_FAILED"
    /\ call.out.val = "false"

\* C8: for each of exp and nbf the resolved value is the per-call value when
\* the key is present in the per-call claims (even when undefined) and the
\* configured default otherwise; the token carries the claim if and only if
\* the resolved value is not undefined.
C8_ExpNbfPrecedence ==
    Signed =>
        LET exp == IF In(call.signValue.exp) THEN call.signValue.exp ELSE cfg.exp
            nbf == IF In(call.signValue.nbf) THEN call.signValue.nbf ELSE cfg.nbf
            p == call.out.token.payload
        IN  /\ In(p.exp) <=> exp \notin {Missing, Undef}
            /\ In(p.nbf) <=> nbf \notin {Missing, Undef}
            /\ In(p.exp) => p.exp = Seconds(exp, call.at)
            /\ In(p.nbf) => p.nbf = Seconds(nbf, call.at)

\* sign({exp: undefined}) over a configured default exp gave a token with no
\* exp claim.
C8_Witness ==
    /\ Signed /\ call.signValue.exp = Undef /\ In(cfg.exp)
    /\ call.out.token.payload.exp = Missing

\* The iat sign resolves: the per-call value when the key is present, else
\* the configured default, else true.
CallIat ==
    IF In(call.signValue.iat) THEN call.signValue.iat
    ELSE IF In(cfg.iat) THEN cfg.iat ELSE TrueV

\* C9 as the spec states it: resolved true sets iat to the time of signing,
\* resolved false sets none, and a resolved number, string or Date sets iat
\* from that value and not from the current time.
C9_IatFromValue ==
    Signed =>
        LET p == call.out.token.payload
        IN  /\ CallIat = TrueV => p.iat = Num(call.at)
            /\ CallIat = FalseV => p.iat = Missing
            /\ CallIat.t \in {"number", "string", "date"} => p.iat = Num(CallIat.v)

\* C9, amended: resolved true sets iat to the time of signing, resolved false
\* sets none, a resolved number or Date sets iat to that value, and a resolved
\* string is a time span that sets iat to the time of signing plus the span.
C9_IatResolution ==
    Signed =>
        LET p == call.out.token.payload
        IN  /\ CallIat = TrueV => p.iat = Num(call.at)
            /\ CallIat = FalseV => p.iat = Missing
            /\ CallIat.t \in {"number", "date"} => p.iat = Num(CallIat.v)
            /\ CallIat.t = "string" => p.iat = Num(call.at + CallIat.v)

\* sign resolved a per-call iat that is a time-span string, after the clock
\* had moved, and set iat to the time of signing plus the span.
C9_Witness ==
    /\ Signed /\ call.signValue.iat = Span(1) /\ call.at > 0
    /\ call.out.token.payload.iat = Num(call.at + 1)

----------------------------------------------------------------------------
(* Properties of the candidate-key iteration.                              *)

\* Candidate k is the first whose key made the token's signature, and the
\* token's time claims hold at the time of the attempt (the call ends in the
\* step of that attempt, so that time is now).
Winner(k) ==
    /\ k \in 1..Len(loop.cands)
    /\ loop.cands[k] = call.jwt.sig
    /\ \A j \in 1..(k - 1) : loop.cands[j] # call.jwt.sig
    /\ call.jwt.payload.exp # Missing =>
        call.jwt.payload.exp.v > now - call.options.tol

\* The attempts made were candidates 1..k, in the order of the set.
TriedUpTo(k) ==
    /\ Len(loop.tried) = k
    /\ \A j \in 1..k : loop.tried[j].k = j

\* C10 as the spec states it: when the resolver reports several matching
\* keys, candidates are tried in the order supplied, and if candidate k
\* verifies the token after every earlier one failed with a signature
\* failure, verify returns the claims verified with candidate k.
C10_CandidateSuccess ==
    Verified /\ Len(loop.cands) > 0 =>
        \A k \in 1..Len(loop.cands) :
            Winner(k) =>
                /\ TriedUpTo(k)
                /\ call.out.val = "claims"
                /\ call.out.data = call.jwt.payload

\* C10, amended: ... verify returns the claims verified with candidate k,
\* provided they pass the schema when one is configured.
C10_CandidateSuccessUnderSchema ==
    Verified /\ Len(loop.cands) > 0 =>
        \A k \in 1..Len(loop.cands) :
            Winner(k) /\ (cfg.schema => candidatesCheck(call.jwt.payload)) =>
                /\ TriedUpTo(k)
                /\ call.out.val = "claims"
                /\ call.out.data = call.jwt.payload

\* Of three candidates only the third made the signature: two signature
\* failures, then the claims.
C10_Witness ==
    /\ Verified /\ Len(loop.cands) = 3 /\ Winner(3)
    /\ loop.tried[1].err = "ERR_JWS_SIGNATURE_VERIFICATION_FAILED"
    /\ loop.tried[2].err = "ERR_JWS_SIGNATURE_VERIFICATION_FAILED"
    /\ loop.tried[3].err = ""
    /\ call.out.val = "claims"


\* An attempt that ended with an error other than a signature failure.
Aborted(j) ==
    loop.tried[j].err \notin {"", "ERR_JWS_SIGNATURE_VERIFICATION_FAILED"}

\* C11: multi-candidate abort: if an attempt of the iteration fails with any
\* error other than a signature-verification failure (an expired token, for
\* one), verify returns false and no later candidate is attempted.
C11_CandidateAbort ==
    \A j \in 1..Len(loop.tried) :
        Aborted(j) =>
            /\ j = Len(loop.tried)
            /\ Verified
            /\ call.out.kind = "return" /\ call.out.val = "false"
            /\ call.out.err = loop.tried[j].err

\* The second of three candidates made the signature of an expired token:
\* one signature failure, then the expiry, and the third was never tried.
C11_Witness ==
    /\ Verified /\ Len(loop.cands) = 3 /\ Len(loop.tried) = 2
    /\ loop.tried[1].err = "ERR_JWS_SIGNATURE_VERIFICATION_FAILED"
    /\ loop.tried[2].err = "ERR_JWT_EXPIRED"
    /\ call.out.val = "false"

\* The iteration under the scheduling of an async function: an awaited
\* jwtVerify with a concrete key settles, so a turn that can be taken is taken.
CandidatesFairSpec ==
    CandidatesSpec /\ WF_vars(CandidatesAttempt) /\ WF_vars(CandidatesExhausted)

\* Every attempt made so far is of another candidate of the set, and every
\* candidate failed with a signature failure.
AttemptedOnce ==
    /\ Len(loop.tried) <= Len(loop.cands)
    /\ \A j \in 1..Len(loop.tried) : loop.tried[j].k = j
AllFailed ==
    /\ Len(loop.cands) > 0
    /\ Len(loop.tried) = Len(loop.cands)
    /\ \A j \in 1..Len(loop.tried) :
        loop.tried[j].err = "ERR_JWS_SIGNATURE_VERIFICATION_FAILED"

\* C12: multi-candidate exhaustion: for a finite candidate set the iteration
\* terminates, attempts each candidate at most once, and verify returns false
\* when every candidate failed with a signature-verification failure.
C12_CandidateExhaustion ==
    /\ [](AttemptedOnce /\ (Verified /\ AllFailed => call.out.kind = "return"
                                                     /\ call.out.val = "false"))
    /\ (call.op = "verifying") ~> Verified
    /\ (call.op = "verifying" /\ AllFailed) ~> (Verified /\ call.out.val = "false")

\* Three candidates, none of which made the signature: three attempts, then false.
C12_Witness ==
    /\ Verified /\ Len(loop.cands) = 3 /\ AllFailed
    /\ call.out.err = "ERR_JWS_SIGNATURE_VERIFICATION_FAILED"
    /\ call.out.val = "false"

----------------------------------------------------------------------------
(* Properties of the schema check, the construction and the facade.        *)

\* The token under verification is correctly signed and in its time: a
\* compact token of an implemented algorithm the caller's options allow,
\* whose signature is the configured secret's (HS*) or that of the one key
\* the key set holds (otherwise), with exp ahead and nbf not.
CorrectlySigned ==
    /\ Compact /\ IsString(call.jwt.alg) /\ Supported(call.jwt.alg)
    /\ call.options.hasAlgs => call.jwt.alg \in call.options.algs
    /\ IF isSymmetric(call.jwt.alg)
       THEN Truthy(cfg.secret) /\ call.jwt.sig = cfg.secret.mat
       ELSE Truthy(cfg.jwks) /\ ~cfg.jwks.fails /\ cfg.jwks.keys = <<call.jwt.sig>>
    /\ call.jwt.payload.exp.t \in {"missing", "number"}
    /\ call.jwt.payload.exp.t = "number" => call.jwt.payload.exp.v > call.at
    /\ call.jwt.payload.nbf.t \in {"missing", "number"}
    /\ call.jwt.payload.nbf.t = "number" => call.jwt.payload.nbf.v <= call.at
    /\ call.jwt.payload.iat.t \in {"missing", "number"}

\* What the caller of verify sees of an outcome.
Seen(o) == [kind |-> o.kind, val |-> o.val, data |-> o.data]

\* C13: schema check: with a schema configured, verify returns false for
\* every correctly signed, unexpired token whose payload fails the validator
\* and returns the payload when it passes; what the caller sees of a schema
\* violation is what it sees of an invalid signature.
C13_SchemaCheck ==
    Verified /\ cfg.schema /\ CorrectlySigned =>
        IF Check(call.jwt.payload)
        THEN Seen(call.out) = Seen(Ret(call.jwt.payload))
        ELSE Seen(call.out) = Seen(RetFalse)

\* C14: construction fails fast: jwt(options) throws if and only if neither
\* secret nor jwks is provided (both falsy), and returns a facade when at
\* least one is; no operation is ever called on a facade that was not built.
C14_ConstructionFailsFast ==
    LET neither == ~Truthy(cfg.secret) /\ ~Truthy(cfg.jwks)
    IN  /\ call.op = "jwt" =>
            /\ call.out.kind \in {"throw", "return"}
            /\ call.out.kind = "throw" <=> neither
            /\ call.out.kind = "return" => call.out.val = "plugin"
        /\ call.op \in {"sign", "verify"} => ~neither

\* jwt({ secret: '' }) threw, the empty string being falsy.
C14_Witness ==
    /\ call.op = "jwt" /\ call.out.kind = "throw"
    /\ cfg.secret = K("string", "") /\ cfg.jwks = UndefinedKey

\* C15: signing capability: the facade exposes sign if and only if a secret
\* is configured; with only jwks there is no sign operation and none is ever
\* called, while verify is exposed in every configuration.
C15_SigningCapability ==
    Constructed(cfg) =>
        /\ "verify" \in jwtDecoration(cfg)
        /\ "sign" \in jwtDecoration(cfg) <=> Truthy(cfg.secret)
        /\ call.op = "sign" => Truthy(cfg.secret)

\* A facade with a key set and no secret verified a token, and has no sign.
C15_Witness ==
    /\ Verified /\ call.out.val = "claims"
    /\ ~Truthy(cfg.secret) /\ Truthy(cfg.jwks)
    /\ jwtDecoration(cfg) = {"verify"}

\* C16: JWS header defaults: the protected header of every token sign
\* produces has alg equal to the configured alg, or 'HS256' when none is
\* configured, and typ equal to the configured typ, or 'JWT' when none is
\* configured; every other header member equals its configured value and is
\* absent from the header when it is not configured.
C16_JwsHeaderDefaults ==
    Signed =>
        LET tok == call.out.token
        IN  /\ tok.alg = (IF cfg.alg = NoAlg THEN HS256 ELSE cfg.alg)
            /\ tok.hdr.typ = (IF cfg.typ = Missing THEN JWT ELSE cfg.typ)
            /\ tok.hdr.kid = cfg.kid
            /\ tok.hdr.cty = cfg.cty
            /\ tok.hdr.crit = cfg.crit
            /\ tok.hdr.b64 = cfg.b64

\* sign on a facade with kid, crit and b64 configured and neither alg nor
\* typ: the header has the defaults and the configured members.
C16_Witness ==
    /\ Signed /\ cfg.alg = NoAlg /\ cfg.typ = Missing
    /\ cfg.kid = Text /\ cfg.crit = CritB64 /\ cfg.b64 = TrueV
    /\ call.out.token.alg = HS256
    /\ cfg.cty = Missing
    /\ call.out.token.hdr = Header(JWT, Text, CritB64, TrueV)

----------------------------------------------------------------------------
(* Properties of encrypt and decrypt.                                      *)

Encrypted == call.op = "encrypt" /\ call.out.kind = "return"
Decrypted == call.op = "decrypt"

\* C17: JWE header defaults: the protected header of every token encrypt
\* produces has alg = the configured alg or 'RSA-OAEP-256', enc = the
\* configured enc or 'A256GCM', cty = the configured cty or 'JWT', and
\* typ = the configured typ or 'JWT'.
C17_JweHeaderDefaults ==
    Encrypted =>
        LET tok == call.out.token
        IN  /\ tok.alg = (IF cfg.alg = NoAlg THEN RSA_OAEP_256 ELSE cfg.alg)
            /\ tok.hdr.enc = (IF cfg.enc = NoAlg THEN A256GCM ELSE cfg.enc)
            /\ tok.hdr.cty = (IF cfg.cty = Missing THEN JWT ELSE cfg.cty)
            /\ tok.hdr.typ = (IF cfg.typ = Missing THEN JWT ELSE cfg.typ)

\* encrypt on a facade with a public key and nothing else configured: the
\* header carries the four defaults.
C17_Witness ==
    /\ Encrypted
    /\ cfg.alg = NoAlg /\ cfg.enc = NoAlg /\ cfg.cty = Missing /\ cfg.typ = Missing
    /\ call.out.token.alg = RSA_OAEP_256
    /\ call.out.token.hdr.enc = A256GCM
    /\ call.out.token.hdr.cty = JWT /\ call.out.token.hdr.typ = JWT

\* The facade's key decrypts tokens of this algorithm encrypted for it.
Matching ==
    /\ Compact
    /\ jweSupported(call.jwt.alg, call.jwt.hdr.enc)
    /\ cekFits(call.jwt.alg, call.jwt.hdr.enc)
    /\ call.jwt.sig = cfg.secret.mat
    /\ IF call.jwt.alg = Dir THEN cfg.secret.form \in {"string", "bytes"}
       ELSE cfg.secret.form = "private"

\* Inputs decrypt must refuse: no token, no compact JWE, a token encrypted
\* for another key, an expired token, a payload that fails the schema.
BadJwe ==
    \/ ~Compact
    \/ call.jwt.sig # cfg.secret.mat
    \/ /\ call.jwt.payload.exp.t = "number"
       /\ call.jwt.payload.exp.v + call.options.tol < call.at
    \/ cfg.schema /\ ~jweCheck(call.jwt.payload)

\* The token is in its time and its payload is one the schema accepts.
GoodClaims ==
    /\ call.jwt.payload.exp.t \in {"missing", "number"}
    /\ call.jwt.payload.exp.t = "number" => call.jwt.payload.exp.v > call.at
    /\ call.jwt.payload.nbf.t = "missing"
    /\ call.jwt.payload.iat.t \in {"missing", "number"}
    /\ cfg.schema => jweCheck(call.jwt.payload)

\* C18: decrypt follows verify's failure contract: it never throws and
\* resolves to false for an absent, empty or malformed token, a token
\* encrypted for another key, an expired token and a payload that fails the
\* schema; for a token encrypt produced with the matching key and a payload
\* that passes the schema it returns the payload.
C18_DecryptContract ==
    Decrypted =>
        /\ call.out.kind = "return"
        /\ call.out.val \in {"false", "claims"}
        /\ BadJwe => call.out.val = "false"
        /\ Matching /\ GoodClaims =>
            call.out.val = "claims" /\ call.out.data = call.jwt.payload

\* decrypt returned the payload of the token this facade's encrypt made,
\* with the name the schema asks for and the iat encrypt set.
C18_Witness ==
    /\ Decrypted /\ call.origin = "encrypted" /\ cfg.schema
    /\ call.out.val = "claims" /\ call.out.data = call.jwt.payload
    /\ call.out.data.name = Text /\ call.out.data.iat = Num(call.signedAt)

----------------------------------------------------------------------------
(* Properties of the sign that takes the time claims by value.             *)

\* C19: an explicit per-call override beats the configured default for the
\* time claims: sign({iat: false}) produces a token with no iat claim whether
\* the configured default iat is unset, true or false, and
\* sign({exp: undefined}) produces a token with no exp claim when a default
\* exp is configured.
C19_ExplicitOverride ==
    Signed =>
        /\ call.signValue.iat = FalseV => call.out.token.payload.iat = Missing
        /\ call.signValue.exp = Undef /\ In(cfg.exp) =>
            call.out.token.payload.exp = Missing

----------------------------------------------------------------------------
(* Properties of the options verify hands to the provider.                 *)

\* C20: JWKS allow-list: on the jwks path the algorithm list handed to the
\* provider is exactly the ten asymmetric algorithms (RS256/384/512,
\* PS256/384/512, ES256/384/512, EdDSA) when the caller passes no options or
\* options without algorithms, every other caller option being preserved;
\* options.algorithms, when passed, is used unchanged.  The defaulted list
\* holds no HS* algorithm.
C20_JwksAllowList ==
    Verified /\ call.out.path = "jwks" =>
        LET h == call.out.handed
        IN  /\ h.given /\ h.hasAlgs
            /\ h.tol = call.options.tol
            /\ ~call.options.hasAlgs =>
                /\ h.algs = {<<f, n>> : f \in {"RS", "PS", "ES"}, n \in {256, 384, 512}}
                                \cup {<<"Ed", 0>>}
                /\ Cardinality(h.algs) = 10
                /\ \A a \in h.algs : ~StartsWithHS(a)
            /\ call.options.hasAlgs => h = call.options

\* The caller passed a clock tolerance and no algorithms; the key set's
\* RS256 token, a second past its exp, was accepted under that tolerance and
\* the defaulted list.
C20_Witness ==
    /\ Verified /\ call.out.path = "jwks"
    /\ call.options = Opts(TRUE, FALSE, {}, 2)
    /\ call.out.handed = Opts(TRUE, TRUE, ASYMMETRIC_VERIFICATION_ALGS, 2)
    /\ call.jwt.alg = RS256 /\ call.jwt.payload.exp = Num(1) /\ call.at = 2
    /\ call.out.val = "claims"

----------------------------------------------------------------------------
(* Properties of the local key.                                            *)

\* C21: local key availability: whenever a secret is configured, the
\* local-secret branch of verify runs with defined key material that matches
\* the key sign used, for every form of secret; for a secret given as a JWK
\* object and no jwks, verify of a token the same facade's sign produced
\* returns its claims.
C21_LocalKeyAvailability ==
    Verified /\ Truthy(cfg.secret) =>
        /\ call.out.path = "local" =>
            /\ key(cfg).form # "undefined"
            /\ key(cfg) = signingKey(cfg)
        /\ RoundTrip /\ cfg.secret.form = "jwk" /\ ~Truthy(cfg.jwks) =>
            call.out.val = "claims"

----------------------------------------------------------------------------
(* Properties of a verify taken step by step beside another handler.       *)

InPipeline == call.op \in {"start", "decoded", "keyed", "verified", "checked"}
Ended == Verified /\ ~Falsy(call.jwt)
Steps(k) == {i \in DOMAIN loop.tried : loop.tried[i].k = k}
LastStep == loop.tried[Len(loop.tried)]

\* C22: verify pipeline order: the steps of a verify call occur in the order
\* header decode (1), key selection (2), provider verification (3), schema
\* check (4), return of claims (5); the schema validator runs only after the
\* provider verified, claims are returned only when every earlier step
\* succeeded, and a failure at any step ends the call with false without
\* running a later step.
C22_PipelineOrder ==
    InPipeline \/ Ended =>
        /\ Len(loop.tried) <= 5
        /\ \A i \in DOMAIN loop.tried : loop.tried[i].k = i
        /\ \A i \in 1 .. Len(loop.tried) - 1 : loop.tried[i].err = ""
        /\ InPipeline =>
            /\ \A i \in DOMAIN loop.tried : loop.tried[i].err = ""
            /\ call.out.val # "false"
            /\ Len(loop.tried) = CASE call.op = "start" -> 0
                                   [] call.op = "decoded" -> 1
                                   [] call.op = "keyed" -> 2
                                   [] call.op = "verified" -> 3
                                   [] call.op = "checked" -> 4
        /\ Ended =>
            /\ Len(loop.tried) >= 1
            /\ call.out.kind = "return"
            /\ call.out.val = "claims" <=> Len(loop.tried) = 5 /\ LastStep.err = ""
            /\ call.out.val # "claims" =>
                call.out.val = "false" /\ LastStep.err # "" /\ Len(loop.tried) < 5
            /\ call.out = verify(cfg, call.jwt, call.options, call.at)

\* With a schema configured, a verify ran all five steps and returned the
\* claims of the secret's token.
C22_Witness ==
    /\ Ended /\ cfg.schema /\ call.out.val = "claims"
    /\ Len(loop.tried) = 5 /\ call.out.path = "local"

\* C23: standard non-time claims in sign: the issuer in the signed payload
\* is the per-call value when the per-call claims have the key (an explicit
\* undefined, which serialises to no member, and null included) and the
\* configured default otherwise; it is absent when neither supplies a value.
\* (iss stands for iss, sub, aud and jti, which the code treats alike.)
C23_StandardClaims ==
    other.op = "sign" /\ other.out.kind = "return" =>
        LET iss == other.out.token.payload.iss
            given == other.signValue.iss
        IN  /\ In(given) => iss = Json(given)
            /\ ~In(given) => iss = cfg.iss
            /\ ~In(given) /\ ~In(cfg.iss) => iss = Missing

\* With a default issuer configured, a sign call passed iss: undefined and
\* the token has no issuer.
C23_Witness ==
    /\ other.op = "sign" /\ other.out.kind = "return"
    /\ cfg.iss = Text /\ other.signValue.iss = Undef
    /\ other.out.token.payload.iss = Missing

\* C24: normalized time claims: in every token sign produces, each of exp,
\* nbf and iat is absent or a number; a duration string, a boolean or a Date
\* never is a claim value.
C24_NormalizedTimeClaims ==
    Signed =>
        \A x \in {call.out.token.payload.exp, call.out.token.payload.nbf,
                  call.out.token.payload.iat} : x = Missing \/ x.t = "number"

\* A sign call given exp: a duration and iat: a Date produced a token with
\* the numbers they stand for.
C24_Witness ==
    /\ Signed /\ call.signValue.exp = Span(1) /\ call.signValue.iat = DateV(1)
    /\ call.out.token.payload.exp = Num(call.signedAt + 1)
    /\ call.out.token.payload.iat = Num(1)

C26_NoRetry ==
    InPipeline \/ Ended =>
        /\ Cardinality(Steps(3)) <= 1
        /\ call.out.invoked <= 1
        /\ call.out.path = "local" => call.out.invoked = 0
        /\ call.out.path = "jwks" => Truthy(cfg.jwks) /\ ~isSymmetric(call.jwt.alg)
        /\ Ended /\ call.out.err = "ERR_JWKS_TIMEOUT" =>
            /\ call.out.kind = "return" /\ call.out.val = "false"
            /\ call.out.invoked = 1 /\ call.out.path = "jwks"
            /\ Len(loop.tried) = 3 /\ LastStep.err = "ERR_JWKS_TIMEOUT"
        /\ Ended /\ Truthy(cfg.jwks) /\ cfg.jwks.fails /\ call.jwt.alg = RS256 =>
            call.out.err = "ERR_JWKS_TIMEOUT"

\* With a secret configured beside a key set whose fetch fails, the verify
\* of an RS256 token ended with false after one request to the resolver.
C26_Witness ==
    /\ Ended /\ Truthy(cfg.secret) /\ Truthy(cfg.jwks) /\ cfg.jwks.fails
    /\ call.jwt.alg = RS256 /\ call.out.val = "false"
    /\ call.out.invoked = 1 /\ Len(loop.tried) = 3

----------------------------------------------------------------------------
(* Properties of the other revisions.                                      *)

\* C27: key-source exclusivity in the secret/privateKey/publicKey revision:
\* construction succeeds if and only if secret alone is given, or privateKey
\* and publicKey are both given and secret is not; with none of them, with
\* secret beside a key of the pair, or with one key of the pair only, the
\* constructor throws and returns no facade.
C27_KeySourceExclusivity ==
    call.op = "jwt" =>
        LET s == Truthy(cfg.secret)
            priv == Truthy(cfg.privateKey)
            pub == Truthy(cfg.publicKey)
        IN  /\ call.out.kind \in {"return", "throw"}
            /\ call.out.kind = "return" <=>
                    \/ s /\ ~priv /\ ~pub
                    \/ ~s /\ priv /\ pub
            /\ call.out.kind = "return" =>
                    /\ call.out.val = "plugin"
                    /\ call.out.path = "asymmetric" <=> priv /\ pub
            /\ call.out.kind = "throw" => call.out.val = "" /\ call.out.err = "Error"

\* jwt({ publicKey }) threw: the private key of the pair is missing.
C27_Witness ==
    /\ call.op = "jwt" /\ call.out.kind = "throw"
    /\ cfg.secret = UndefinedKey /\ cfg.privateKey = UndefinedKey
    /\ cfg.publicKey = K("public", "p1")

\* C28: signing with verification-only material: in the revision whose
\* secret may be a key-set resolver function, sign throws a TypeError and
\* produces no token whenever the secret is a function; it never returns
\* false and never signs with the resolver.
C28_SignWithResolver ==
    call.op = "sign" =>
        /\ call.out.val # "false"
        /\ cfg.secret.form = "function" =>
            /\ call.out.kind = "throw" /\ call.out.err = "TypeError"
            /\ call.out.token = NoToken
        /\ call.out.kind = "return" =>
            /\ cfg.secret.form # "function"
            /\ call.out.val = "token"
            /\ call.out.token.sig = candidatesKey(cfg).mat
            /\ call.out.token.sig \in OctMaterial

\* sign threw a TypeError on a facade configured with a key set of two keys.
C28_Witness ==
    /\ call.op = "sign" /\ cfg.secret.form = "function"
    /\ Len(cfg.secret.keys) = 2
    /\ call.out.kind = "throw" /\ call.out.err = "TypeError"

\* C29: encrypt and sign normalize claims identically: for the same
\* configuration and the same per-call claims at the same instant, encrypt
\* and sign compute the same payload claims and the same resolved exp, nbf
\* and iat (or refuse the same time input); the token of either carries
\* those claims, and they differ in the header defaults and the provider
\* operation only.
C29_SameNormalization ==
    call.op \in {"sign", "encrypt"} =>
        LET s == jweSignClaims(cfg, call.signValue, call.signedAt)
            e == encryptClaims(cfg, call.signValue, call.signedAt)
        IN  /\ s = e
            /\ call.out.kind = "return" =>
                /\ call.out.token.payload = s.data
                /\ call.out.token.payload = e.data
                /\ call.out.token.hdr.typ = Coalesce(cfg.typ, JWT)
                /\ call.out.token.alg =
                        (IF call.op = "sign" THEN JWTHeaderAlg(cfg) ELSE JWEHeaderAlg(cfg))
            /\ s.kind = "throw" => call.out.kind = "throw" /\ call.out.err = "TypeError"

\* An encrypt call given exp: a duration and iat: 0 a second after the start
\* produced a token whose exp and iat are those sign computes for the same
\* claims: exp two seconds after the start and iat the current time.
C29_Witness ==
    /\ call.op = "encrypt" /\ call.out.kind = "return"
    /\ call.signValue.exp = Span(1) /\ call.signValue.iat = Num(0)
    /\ call.signedAt = 1
    /\ call.out.token.payload.exp = Num(2) /\ call.out.token.payload.iat = Num(1)
    /\ jweSignClaims(cfg, call.signValue, call.signedAt).data = call.out.token.payload

====
